---- MODULE Spec2Model ----
(***************************************************************************)
(* Street Art Fashion API (src/main.py): the product catalogue endpoints,  *)
(* the seeding routine, the serializer and the /test diagnostic endpoint.  *)
(*                                                                         *)
(* Values that Python may hold as None are wrapped: None is <<>> and a     *)
(* value v is <<v>>.  A stored document is a function from the field names *)
(* it has to wrapped values, so "absent", "null" and "present" are three   *)
(* different things.  Prices are whole dollars.  The emoji that prefix the *)
(* strings of the /test report are left out of the string literals.        *)
(***************************************************************************)
EXTENDS Integers, Sequences, FiniteSets, TLC

VARIABLES db, coll, nextId, pc, req, observed, idx, newId, wrote, solo,
          failed, resp, started, rawDoc, serOut, names, listErr, env, report

vars == <<db, coll, nextId, pc, req, observed, idx, newId, wrote, solo,
          failed, resp, started, rawDoc, serOut, names, listErr, env, report>>

apiVars == <<db, coll, nextId, pc, req, observed, idx, newId, wrote, solo,
             failed, resp, started>>

serVars == <<rawDoc, serOut>>

testVars == <<names, listErr, env, report>>

-----------------------------------------------------------------------------
(* Bounds of the model *)

MaxRequests == 3

MaxColls == 11

MaxErrLen == 51

MaxPosts == 1

-----------------------------------------------------------------------------
(* Python values *)

None == <<>>

Some(v) == <<v>>

Min(a, b) == IF a < b THEN a ELSE b

\* doc.get(key, default), with the default already wrapped
Get(doc, key, default) == IF key \in DOMAIN doc THEN doc[key] ELSE default

\* bool(x) for x a wrapped boolean or None
PyBool(x) == IF x = None THEN FALSE ELSE x[1]

\* s[:n]
Take(s, n) == SubSeq(s, 1, Min(n, Len(s)))

\* str(ObjectId) and str(None); ObjectId(s) is its inverse on identifiers
IdStr(x) == IF x = None THEN "None" ELSE "oid" \o ToString(x[1])

-----------------------------------------------------------------------------
(* ProductCreate / ProductOut *)

DefaultCategory == "streetwear"

DefaultInStock == TRUE

DefaultLimit == 20

ProductFields == {"title", "description", "price", "category", "in_stock",
                  "image", "colors"}

PriceOkLoose(p) == p >= 0 - 5

\* Field(..., ge=0) on price
PriceOk(p) == p >= 0

\* Constructing ProductOut(...) validates the non-optional fields: title and
\* category must be strings, price a float >= 0 (inherited from ProductCreate),
\* in_stock a bool, id a string.  description, image and colors are Optional.
ProductOutOk(title, price, category) ==
    /\ title # None
    /\ category # None
    /\ PriceOk(price)

\* doc.get("colors") or []; ProductOut.colors is Optional, so the result is
\* kept wrapped in the product
OrEmpty(c) == IF c = None THEN <<>> ELSE c[1]

TitleRequired(doc) == Get(doc, "title", None)

\* doc.get("title", "")
TitleOf(doc) == Get(doc, "title", Some(""))

\* serialize_product: the arguments are evaluated in order, so float(None)
\* raises TypeError before the ProductOut constructor validates anything.
serialize_product(doc) ==
    LET id       == IdStr(Get(doc, "_id", None))
        title    == TitleOf(doc)
        descr    == Get(doc, "description", None)
        rawPrice == Get(doc, "price", Some(0))
        category == Get(doc, "category", Some(DefaultCategory))
        in_stock == PyBool(Get(doc, "in_stock", Some(DefaultInStock)))
        image    == Get(doc, "image", None)
        colors   == Some(OrEmpty(Get(doc, "colors", None)))
    IN  IF rawPrice = None
          THEN [ok |-> FALSE, error |-> "TypeError"]
        ELSE IF ~ProductOutOk(title, rawPrice[1], category)
          THEN [ok |-> FALSE, error |-> "ValidationError"]
        ELSE [ok |-> TRUE,
              value |-> [id |-> id, title |-> title[1], description |-> descr,
                         price |-> rawPrice[1], category |-> category[1],
                         in_stock |-> in_stock, image |-> image,
                         colors |-> colors]]

-----------------------------------------------------------------------------
(* Seed data *)

seed_items == <<
    [title |-> Some("Neon Graffiti Hoodie"),
     description |-> Some("Oversized hoodie splashed with neon tags and glow ink."),
     price |-> Some(89),
     category |-> Some("hoodies"),
     in_stock |-> Some(TRUE),
     image |-> Some("https://images.unsplash.com/photo-1512436991641-6745cdb1723f?q=80&w=1600&auto=format&fit=crop"),
     colors |-> Some(<<"#7C3AED", "#06B6D4", "#F59E0B">>)],
    [title |-> Some("Street Halo Sneakers"),
     description |-> Some("Chunky sneakers with iridescent spray gradients."),
     price |-> Some(129),
     category |-> Some("sneakers"),
     in_stock |-> Some(TRUE),
     image |-> Some("https://images.unsplash.com/photo-1542291026-7eec264c27ff?q=80&w=1600&auto=format&fit=crop"),
     colors |-> Some(<<"#22D3EE", "#A78BFA", "#F472B6">>)],
    [title |-> Some("Stickerbomb Cargo Pants"),
     description |-> Some("Tactical cargos with removable sticker patches."),
     price |-> Some(74),
     category |-> Some("pants"),
     in_stock |-> Some(TRUE),
     image |-> Some("https://images.unsplash.com/photo-1520975922284-5420f8d7c44a?q=80&w=1600&auto=format&fit=crop"),
     colors |-> Some(<<"#10B981", "#F43F5E", "#60A5FA">>)],
    [title |-> Some("Drip Aura Cap"),
     description |-> Some("6-panel cap with melting chrome embroidery."),
     price |-> Some(39),
     category |-> Some("hats"),
     in_stock |-> Some(TRUE),
     image |-> Some("https://images.unsplash.com/photo-1517702145080-e0f9a3fd0c49?q=80&w=1600&auto=format&fit=crop"),
     colors |-> Some(<<"#FB7185", "#34D399", "#818CF8">>)] >>

-----------------------------------------------------------------------------
(* Document store adapter (database.py) *)

\* the document as the store keeps it: the data plus the generated _id
Stored(data, id) == ("_id" :> Some(id)) @@ data

\* the document without its _id
Data(doc) == [k \in DOMAIN doc \ {"_id"} |-> doc[k]]

\* get_documents(collection, {}, limit): up to limit documents, limit >= 1
get_documents(c, limit) == Take(c, limit)

\* ObjectId(new_id)
ObjectId(s) == CHOOSE n \in 1..nextId : IdStr(Some(n)) = s

find_first(c, oid) == IF Len(c) > 0 THEN Some(c[1]) ELSE None

\* db["product"].find_one({"_id": oid})
find_one(c, oid) ==
    IF \E i \in 1..Len(c) : c[i]["_id"] = Some(oid)
      THEN Some(c[CHOOSE i \in 1..Len(c) : c[i]["_id"] = Some(oid)])
      ELSE None

\* a catalogue that was filled before this process started
LegacyDoc(i) == Stored([title |-> Some("Legacy Tee"), price |-> Some(15)], i)

Preloaded == [i \in 1..(DefaultLimit + 1) |-> LegacyDoc(i)]

-----------------------------------------------------------------------------
(* Requests and responses *)

\* the two workers that serve requests: two requests can overlap
Req == {1, 2}

NoReq == [kind |-> "none", query |-> None, body |-> <<>>]

NoResp == [status |-> 0, ctype |-> "none", detail |-> "", items |-> <<>>]

\* a JSON list of products, or the one product of a creation
Success(items) == [status |-> 200, ctype |-> "json", detail |-> "", items |-> items]

\* raise HTTPException(status_code=status, detail=str(e))
HTTPException(status, text) ==
    [status |-> status, ctype |-> "json", detail |-> text, items |-> <<>>]

\* an exception that leaves the handler: the server answers with the plain
\* text "Internal Server Error", not with a JSON detail
Unhandled == [status |-> 500, ctype |-> "text", detail |-> "", items |-> <<>>]

\* the body failed the ProductCreate model: the framework answers 422 before
\* the handler is called
RequestValidationError ==
    [status |-> 422, ctype |-> "json", detail |-> "RequestValidationError",
     items |-> <<>>]

Active(r) == pc[r] \notin {"idle", "done"}

\* ?limit= as sent: None when the parameter is omitted
LimitQueries == {None, Some(0), Some(1), Some(2)}

\* limit: Optional[int] = 20
Param(q) == IF q = None THEN Some(DefaultLimit) ELSE q

LimitIgnored(limit) == DefaultLimit

\* limit or 20
LimitOr(limit) == IF limit = None \/ limit[1] = 0 THEN DefaultLimit ELSE limit[1]

\* request bodies of POST /api/products: each field absent, null or a value
NoField == [k \in {} |-> None]

Bodies ==
    { t @@ pr @@ c @@ s @@ cl @@ d @@ i :
        t  \in {[title |-> Some("")], [title |-> Some("Tee")]},
        pr \in {[price |-> Some(0 - 5)], [price |-> Some(0)], [price |-> Some(25)]},
        c  \in {NoField, [category |-> Some("hats")]},
        s  \in {NoField, [in_stock |-> Some(FALSE)]},
        cl \in {NoField, [colors |-> None], [colors |-> Some(<<"#111", "#222">>)]},
        d  \in {NoField, [description |-> Some("plain")]},
        i  \in {NoField, [image |-> Some("u.png")]} }

SmallBodies == {[title |-> Some("Tee"), price |-> Some(25)],
                [title |-> Some("Tee"), price |-> Some(0 - 5)]}

\* the body satisfies ProductCreate: title and price required, price >= 0,
\* category and in_stock not null when given
CreateOk(body) ==
    /\ "title" \in DOMAIN body /\ body["title"] # None
    /\ "price" \in DOMAIN body /\ body["price"] # None
    /\ PriceOk(body["price"][1])
    /\ "category" \in DOMAIN body => body["category"] # None
    /\ "in_stock" \in DOMAIN body => body["in_stock"] # None

\* ProductCreate(**body).model_dump(): every field, declared defaults applied
model_dump(body) ==
    [title       |-> body["title"],
     description |-> Get(body, "description", None),
     price       |-> body["price"],
     category    |-> Get(body, "category", Some(DefaultCategory)),
     in_stock    |-> Get(body, "in_stock", Some(DefaultInStock)),
     image       |-> Get(body, "image", None),
     colors      |-> Get(body, "colors", Some(<<>>))]

\* schemas.Product(title, description, price, category, in_stock)
ProductSchema(payload) ==
    /\ payload["title"][1] # ""
    /\ PriceOk(payload["price"][1])

SeedNeededUnlessSeeding(count) ==
    count = 0 /\ \A q \in Req : pc[q] # "seed_insert"

SeedNeededBelowFour(count) == count < Len(seed_items)

\* if coll.count_documents({}) == 0
SeedNeeded(count) == count = 0

SeedLoopStopsEarly(i) == i < Len(seed_items) - 1

\* for item in seed_items: there is an item after the i-th
SeedLoopMore(i) == i < Len(seed_items)

\* the /test report before the handler has run
NoReport == [status |-> 0]

-----------------------------------------------------------------------------
(* Initial states *)

InitApi ==
    /\ db \in {"none", "connected"}
    /\ coll \in IF db = "none" THEN {<<>>} ELSE {<<>>, Preloaded}
    /\ nextId = Len(coll) + 1
    /\ pc = [r \in Req |-> "idle"]
    /\ req = [r \in Req |-> NoReq]
    /\ observed = [r \in Req |-> 0 - 1]
    /\ idx = [r \in Req |-> 0]
    /\ newId = [r \in Req |-> ""]
    /\ wrote = [r \in Req |-> {}]
    /\ solo = [r \in Req |-> TRUE]
    /\ failed = [r \in Req |-> ""]
    /\ resp = [r \in Req |-> NoResp]
    /\ started = 0

\* nothing serialized yet
Pending == [ok |-> FALSE, error |-> "pending"]

InitSer == rawDoc = NoField /\ serOut = Pending

InitTest ==
    /\ names = <<>>
    /\ listErr = None
    /\ env = [DATABASE_URL |-> FALSE, DATABASE_NAME |-> FALSE]
    /\ report = NoReport

Init == InitApi /\ InitSer /\ InitTest

-----------------------------------------------------------------------------
(* The handlers; every call of the store is one step *)

\* a request arrives and is served in the first slot that serves no request;
\* the slot's locals start afresh
Start(r, rq, first) ==
    /\ ~Active(r)
    /\ \A q \in Req : q < r => Active(q)
    /\ pc' = [pc EXCEPT ![r] = first]
    /\ req' = [req EXCEPT ![r] = rq]
    /\ started' = started + 1
    /\ solo' = [q \in Req |->
                 IF q = r THEN \A o \in Req \ {r} : ~Active(o)
                 ELSE IF Active(q) THEN FALSE ELSE solo[q]]
    /\ observed' = [observed EXCEPT ![r] = 0 - 1]
    /\ idx' = [idx EXCEPT ![r] = 0]
    /\ newId' = [newId EXCEPT ![r] = ""]
    /\ wrote' = [wrote EXCEPT ![r] = {}]
    /\ failed' = [failed EXCEPT ![r] = ""]
    /\ resp' = [resp EXCEPT ![r] = NoResp]
    /\ UNCHANGED <<db, coll, nextId>>

\* the request in slot r is answered
Finish(r, response, error) ==
    /\ pc' = [pc EXCEPT ![r] = "done"]
    /\ resp' = [resp EXCEPT ![r] = response]
    /\ failed' = [failed EXCEPT ![r] = IF error = "" THEN @ ELSE error]

\* create_document("product", data)
create_document(r, data) ==
    /\ coll' = Append(coll, Stored(data, nextId))
    /\ nextId' = nextId + 1
    /\ wrote' = [wrote EXCEPT ![r] = @ \cup {nextId}]

\* GET /api/products; the limit is read when the listing needs it
ListStart(r) ==
    /\ started < MaxRequests
    /\ Start(r, [kind |-> "list", query |-> None, body |-> <<>>], "seed_count")
    /\ UNCHANGED <<serVars, testVars>>

\* ensure_seed_products: the check
EnsureSeedCount(r) ==
    /\ pc[r] = "seed_count"
    /\ IF db = "none"
         THEN /\ pc' = [pc EXCEPT ![r] = "find"]
              /\ UNCHANGED <<observed, idx, resp, failed>>
         ELSE \E ok \in BOOLEAN :
                IF ~ok
                  THEN /\ Finish(r, Unhandled, "StoreReadError")
                       /\ UNCHANGED <<observed, idx>>
                  ELSE /\ observed' = [observed EXCEPT ![r] = Len(coll)]
                       /\ IF SeedNeeded(Len(coll))
                            THEN /\ pc' = [pc EXCEPT ![r] = "seed_insert"]
                                 /\ idx' = [idx EXCEPT ![r] = 1]
                            ELSE /\ pc' = [pc EXCEPT ![r] = "find"]
                                 /\ UNCHANGED idx
                       /\ UNCHANGED <<resp, failed>>
    /\ UNCHANGED <<db, coll, nextId, req, newId, wrote, solo, started>>
    /\ UNCHANGED <<serVars, testVars>>

\* ensure_seed_products: one turn of the loop over seed_items
EnsureSeedInsert(r) ==
    /\ pc[r] = "seed_insert"
    /\ \E ok \in BOOLEAN :
         IF ~ok
           THEN /\ Finish(r, Unhandled, "StoreWriteError")
                /\ UNCHANGED <<coll, nextId, wrote, idx>>
           ELSE /\ create_document(r, seed_items[idx[r]])
                /\ IF SeedLoopMore(idx[r])
                     THEN /\ idx' = [idx EXCEPT ![r] = @ + 1]
                          /\ UNCHANGED pc
                     ELSE /\ pc' = [pc EXCEPT ![r] = "find"]
                          /\ UNCHANGED idx
                /\ UNCHANGED <<resp, failed>>
    /\ UNCHANGED <<db, req, observed, newId, solo, started>>
    /\ UNCHANGED <<serVars, testVars>>

\* list_products: the try block, for the limit q of the query string
ListFind(r) ==
    /\ pc[r] = "find"
    /\ \E q \in LimitQueries :
         /\ req' = [req EXCEPT ![r].query = q]
         /\ IF db = "none"
              THEN Finish(r, HTTPException(500, "StoreUnavailable"), "StoreUnavailable")
              ELSE \E ok \in BOOLEAN :
                     IF ~ok
                       THEN Finish(r, HTTPException(500, "StoreReadError"), "StoreReadError")
                       ELSE LET docs == get_documents(coll, LimitOr(Param(q)))
                                outs == [i \in 1..Len(docs) |-> serialize_product(docs[i])]
                                bad  == {i \in 1..Len(docs) : ~outs[i].ok}
                            IN  IF bad # {}
                                  THEN Finish(r, HTTPException(500,
                                         outs[CHOOSE i \in bad : \A j \in bad : i <= j].error), "")
                                  ELSE Finish(r, Success([i \in 1..Len(docs) |-> outs[i].value]), "")
    /\ UNCHANGED <<db, coll, nextId, observed, idx, newId, wrote, solo, started>>
    /\ UNCHANGED <<serVars, testVars>>

\* POST /api/products: the framework parses the body into ProductCreate and
\* answers 422 itself when that fails; otherwise it calls the handler
StartCreate(r, body) ==
    /\ Start(r, [kind |-> "create", query |-> None, body |-> body],
             IF CreateOk(body) THEN "create_insert" ELSE "rejected")
    /\ UNCHANGED <<serVars, testVars>>

CreateStart(r) ==
    \E body \in SmallBodies : started < MaxRequests /\ StartCreate(r, body)

CreateReject(r) ==
    /\ pc[r] = "rejected"
    /\ Finish(r, RequestValidationError, "")
    /\ UNCHANGED <<db, coll, nextId, req, observed, idx, newId, wrote, solo, started>>
    /\ UNCHANGED <<serVars, testVars>>

\* create_product: ProductSchema(...) and create_document(...)
CreateInsert(r) ==
    /\ pc[r] = "create_insert"
    /\ LET payload == model_dump(req[r].body)
       IN  IF ~ProductSchema(payload)
             THEN /\ Finish(r, HTTPException(400, "ValidationError"), "")
                  /\ UNCHANGED <<coll, nextId, wrote, newId>>
           ELSE IF db = "none"
             THEN /\ Finish(r, HTTPException(400, "StoreUnavailable"), "StoreUnavailable")
                  /\ UNCHANGED <<coll, nextId, wrote, newId>>
           ELSE \E ok \in BOOLEAN :
                  IF ~ok
                    THEN /\ Finish(r, HTTPException(400, "StoreWriteError"), "StoreWriteError")
                         /\ UNCHANGED <<coll, nextId, wrote, newId>>
                    ELSE /\ create_document(r, payload)
                         /\ newId' = [newId EXCEPT ![r] = IdStr(Some(nextId))]
                         /\ pc' = [pc EXCEPT ![r] = "create_refetch"]
                         /\ UNCHANGED <<resp, failed>>
    /\ UNCHANGED <<db, req, observed, idx, solo, started>>
    /\ UNCHANGED <<serVars, testVars>>

\* create_product: find_one by the new id and serialize_product
CreateRefetch(r) ==
    /\ pc[r] = "create_refetch"
    /\ \E ok \in BOOLEAN :
         IF ~ok
           THEN Finish(r, HTTPException(400, "StoreReadError"), "StoreReadError")
           ELSE LET doc == find_one(coll, ObjectId(newId[r]))
                IN  IF doc = None
                      THEN Finish(r, HTTPException(400, "AttributeError"), "")
                    ELSE LET out == serialize_product(doc[1])
                         IN  IF out.ok
                               THEN Finish(r, Success(<<out.value>>), "")
                               ELSE Finish(r, HTTPException(400, out.error), "")
    /\ UNCHANGED <<db, coll, nextId, req, observed, idx, newId, wrote, solo, started>>
    /\ UNCHANGED <<serVars, testVars>>

Next ==
    \E r \in Req :
        \/ ListStart(r)
        \/ EnsureSeedCount(r)
        \/ EnsureSeedInsert(r)
        \/ ListFind(r)
        \/ CreateStart(r)
        \/ CreateReject(r)
        \/ CreateInsert(r)
        \/ CreateRefetch(r)

Spec == Init /\ [][Next]_vars

-----------------------------------------------------------------------------
(* POST /api/products over every request body *)

CreateStartAny(r) ==
    \E body \in Bodies : started < MaxPosts /\ StartCreate(r, body)

NextPost ==
    \E r \in Req :
        \/ CreateStartAny(r)
        \/ CreateReject(r)
        \/ CreateInsert(r)
        \/ CreateRefetch(r)

SpecPost == Init /\ [][NextPost]_vars

-----------------------------------------------------------------------------
(* serialize_product over raw documents *)

\* raw documents: every field absent, null, or one of a few values
RawDocs ==
    { i @@ t @@ d @@ p @@ c @@ s @@ im @@ cl :
        i  \in {NoField, "_id" :> Some(7)},
        t  \in {NoField, [title |-> None], [title |-> Some("Tee")]},
        d  \in {NoField, [description |-> None], [description |-> Some("plain")]},
        p  \in {NoField, [price |-> None], [price |-> Some(0)], [price |-> Some(25)],
                [price |-> Some(0 - 5)]},
        c  \in {NoField, [category |-> None], [category |-> Some("hats")]},
        s  \in {NoField, [in_stock |-> None], [in_stock |-> Some(TRUE)],
                [in_stock |-> Some(FALSE)]},
        im \in {NoField, [image |-> None], [image |-> Some("u.png")]},
        cl \in {NoField, [colors |-> None], [colors |-> Some(<<>>)],
                [colors |-> Some(<<"#111", "#222">>)]} }

Serialize ==
    /\ serOut = Pending
    /\ serOut' = serialize_product(rawDoc)
    /\ UNCHANGED <<rawDoc, apiVars, testVars>>

NextSer == Serialize

\* any raw document, nothing serialized yet; the API is not used
InitRaw ==
    /\ InitApi /\ db = "none"
    /\ rawDoc \in RawDocs /\ serOut = Pending
    /\ InitTest

SpecSer == InitRaw /\ [][NextSer]_vars

-----------------------------------------------------------------------------
(* GET /test *)

MaxReported == 10

ErrTextLen == 50

\* the text of an exception, n characters long
ErrText(n) == [i \in 1..n |-> "e"]

ReportedAll(ns) == ns

\* collections[:10]
Reported(ns) == Take(ns, MaxReported)

\* str(e)[:50]
Truncated(msg) == Take(msg, ErrTextLen)

EnvFlag(set) == IF set THEN "Set" ELSE "Not Set"

\* test_database: db.list_collection_names() returns names, or raises listErr.
\* database_url and database_name are overwritten from the environment at the
\* end, so only their last values are in the report.  Nothing in the outer try
\* block raises outside the inner one, so the outer except has no case here.
TestDatabase ==
    /\ report = NoReport
    /\ LET base == [status |-> 200,
                    backend |-> "Running",
                    database |-> "Not Available",
                    error |-> <<>>,
                    connection_status |-> "Not Connected",
                    collections |-> <<>>,
                    database_url |-> EnvFlag(env.DATABASE_URL),
                    database_name |-> EnvFlag(env.DATABASE_NAME)]
       IN  report' =
             IF db = "none"
               THEN [base EXCEPT !.database = "Available but not initialized"]
             ELSE IF listErr # None
               THEN [base EXCEPT !.database = "Connected but Error: ",
                                 !.error = Truncated(listErr[1]),
                                 !.connection_status = "Connected"]
             ELSE [base EXCEPT !.database = "Connected & Working",
                               !.connection_status = "Connected",
                               !.collections = Reported(names)]
    /\ UNCHANGED <<names, listErr, env, apiVars, serVars>>

NextTest == TestDatabase

\* any store state and environment, /test not yet called
InitStore ==
    /\ InitApi /\ coll = <<>>
    /\ InitSer
    /\ env \in [DATABASE_URL : BOOLEAN, DATABASE_NAME : BOOLEAN]
    /\ names \in IF db = "none" THEN {<<>>}
                 ELSE {[i \in 1..n |-> "c" \o ToString(i)] : n \in 0..MaxColls}
    /\ listErr \in IF db = "none" THEN {None}
                   ELSE {None} \cup {Some(ErrText(n)) : n \in 0..MaxErrLen}
    /\ report = NoReport

SpecTest == InitStore /\ [][NextTest]_vars

-----------------------------------------------------------------------------
(* Properties of the seeding routine *)

\* the collection is the four seed products in their order, each under its
\* own store-assigned identifier
IsSeedSet(c) ==
    /\ Len(c) = 4
    /\ Data(c[1])["title"] = Some("Neon Graffiti Hoodie")
    /\ Data(c[2])["title"] = Some("Street Halo Sneakers")
    /\ Data(c[3])["title"] = Some("Stickerbomb Cargo Pants")
    /\ Data(c[4])["title"] = Some("Drip Aura Cap")
    /\ \A i \in 1..4 : Data(c[i]) = seed_items[i]
    /\ \A i, j \in 1..4 : i # j => c[i]["_id"] # c[j]["_id"]

\* the number of documents of c that are copies of the k-th seed product
Copies(c, k) == Cardinality({i \in 1..Len(c) : Data(c[i]) = seed_items[k]})

\* C1: a GET /api/products that found the collection empty, overlapped no
\* other request and met no store failure leaves, at the moment it completes,
\* exactly the 4 seed products in the collection, in their fixed order.
C1_SeedsExactlyFour ==
    [][\A r \in Req :
         (/\ req'[r].kind = "list"
          /\ pc[r] = "find" /\ pc'[r] = "done"
          /\ solo'[r]
          /\ observed'[r] = 0
          /\ failed'[r] = "")
         => IsSeedSet(coll')]_vars

C1_Witness ==
    \E r \in Req :
        /\ req[r].kind = "list" /\ pc[r] = "done"
        /\ solo[r] /\ observed[r] = 0 /\ failed[r] = ""
        /\ resp[r].status = 200
        /\ IsSeedSet(coll)

\* C2: two GET /api/products requests that both saw count 0 both insert the
\* whole seed set: when both have completed without store failure, each has
\* written its own 4 documents and the collection holds every seed product at
\* least twice (8 documents or more).
C2_BothSeed ==
    \A r1, r2 \in Req :
        (/\ r1 # r2
         /\ req[r1].kind = "list" /\ req[r2].kind = "list"
         /\ pc[r1] = "done" /\ pc[r2] = "done"
         /\ observed[r1] = 0 /\ observed[r2] = 0
         /\ failed[r1] = "" /\ failed[r2] = "")
        => /\ Cardinality(wrote[r1]) = 4
           /\ Cardinality(wrote[r2]) = 4
           /\ wrote[r1] \cap wrote[r2] = {}
           /\ Len(coll) >= 8
           /\ \A k \in 1..4 : Copies(coll, k) >= 2

C2_Witness ==
    /\ \A r \in Req : /\ req[r].kind = "list" /\ pc[r] = "done"
                      /\ observed[r] = 0 /\ resp[r].status = 200
    /\ Len(coll) = 8
    /\ \A k \in 1..4 : Copies(coll, k) = 2

\* C3: a step of a GET /api/products whose seeding check found at least one
\* document never changes the collection, and that request writes nothing.
C3_NoSeedWhenNonEmpty ==
    [][\A r \in Req :
         (/\ req'[r].kind = "list"
          /\ observed'[r] > 0
          /\ <<pc[r], observed[r]>> # <<pc'[r], observed'[r]>>)
         => /\ coll' = coll
            /\ wrote'[r] = {}
            /\ pc'[r] \in {"find", "done"}]_vars

C3_Witness ==
    \E r \in Req :
        /\ req[r].kind = "list" /\ pc[r] = "done"
        /\ observed[r] = 4 /\ wrote[r] = {}
        /\ resp[r].status = 200
        /\ started >= 2
        /\ IsSeedSet(coll)

-----------------------------------------------------------------------------
(* Properties of POST /api/products *)

IsCreate(r) == req[r].kind = "create"

NegativePrice(r) ==
    /\ IsCreate(r)
    /\ "price" \in DOMAIN req[r].body
    /\ req[r].body["price"] # None
    /\ req[r].body["price"][1] < 0

\* a body the creation contract calls valid: non-empty title, price >= 0
ValidBody(body) == CreateOk(body) /\ body["title"][1] # ""

\* the documents of the collection that request r inserted
Inserted(r) == {i \in 1..Len(coll) : coll[i]["_id"] # None /\ coll[i]["_id"][1] \in wrote[r]}

\* the product the response of r carries has the submitted values, defaults
\* where a field was omitted; colorsExpected is the expected colors
EchoesBody(r, colorsExpected) ==
    LET body == req[r].body
        out  == resp[r].items[1]
    IN  /\ Len(resp[r].items) = 1
        /\ out.title = body["title"][1]
        /\ out.price = body["price"][1]
        /\ out.description = (IF "description" \in DOMAIN body THEN body["description"] ELSE None)
        /\ out.image = (IF "image" \in DOMAIN body THEN body["image"] ELSE None)
        /\ out.category = (IF "category" \in DOMAIN body THEN body["category"][1] ELSE "streetwear")
        /\ out.in_stock = (IF "in_stock" \in DOMAIN body THEN body["in_stock"][1] ELSE TRUE)
        /\ out.colors = colorsExpected

\* the response of r carries the identifier of the one document r inserted
CarriesNewId(r) ==
    /\ Cardinality(wrote[r]) = 1
    /\ Cardinality(Inserted(r)) = 1
    /\ Len(resp[r].items) = 1
    /\ resp[r].items[1].id # ""
    /\ \A n \in wrote[r] : resp[r].items[1].id = "oid" \o ToString(n)

C5_Original ==
    \A r \in Req :
        (/\ IsCreate(r) /\ pc[r] = "done"
         /\ ValidBody(req[r].body)
         /\ db = "connected" /\ failed[r] = "")
        => /\ resp[r].status = 200
           /\ CarriesNewId(r)
           /\ EchoesBody(r, IF "colors" \in DOMAIN req[r].body
                              THEN req[r].body["colors"] ELSE Some(<<>>))

\* C5: a valid POST with the store available adds exactly one document and
\* returns it: its store-assigned non-empty id and the submitted values, with
\* the defaults where a field is omitted and colors = [] where colors is
\* omitted or null.
C5_CreateEchoes ==
    \A r \in Req :
        (/\ IsCreate(r) /\ pc[r] = "done"
         /\ ValidBody(req[r].body)
         /\ db = "connected" /\ failed[r] = "")
        => /\ resp[r].status = 200
           /\ CarriesNewId(r)
           /\ EchoesBody(r, IF "colors" \in DOMAIN req[r].body /\ req[r].body["colors"] # None
                              THEN req[r].body["colors"] ELSE Some(<<>>))

C5_Witness ==
    \E r \in Req :
        /\ IsCreate(r) /\ pc[r] = "done"
        /\ ValidBody(req[r].body)
        /\ "colors" \in DOMAIN req[r].body /\ req[r].body["colors"] = None
        /\ "category" \notin DOMAIN req[r].body
        /\ resp[r].status = 200
        /\ resp[r].items[1].colors = Some(<<>>)
        /\ resp[r].items[1].category = "streetwear"
        /\ Len(coll) = DefaultLimit + 2

\* C10: a POST answered with an error status has inserted nothing, and a
\* document it inserted is there only with a success that carries its id.
C10_NoPartialSuccess ==
    \A r \in Req :
        (IsCreate(r) /\ pc[r] = "done")
        => /\ resp[r].status # 200 => wrote[r] = {}
           /\ wrote[r] # {} => resp[r].status = 200 /\ CarriesNewId(r)

-----------------------------------------------------------------------------
(* Properties of GET /api/products *)

IsList(r) == req[r].kind = "list"

\* C6 as stated: a successful listing returns at most limit products, limit
\* being 20 when omitted, and 0 included.
C6_Original ==
    \A r \in Req :
        (IsList(r) /\ pc[r] = "done" /\ resp[r].status = 200)
        => Len(resp[r].items) <= (IF req[r].query = None THEN 20 ELSE req[r].query[1])

\* C6: a successful listing returns at most limit products for a limit of 1
\* or more, and at most 20 when limit is omitted or 0.
C6_AtMostLimit ==
    \A r \in Req :
        (IsList(r) /\ pc[r] = "done" /\ resp[r].status = 200)
        => Len(resp[r].items) <=
             (IF req[r].query = None \/ req[r].query = Some(0) THEN 20
              ELSE req[r].query[1])

C6_Witness ==
    \E r \in Req :
        /\ IsList(r) /\ pc[r] = "done" /\ resp[r].status = 200
        /\ req[r].query = Some(2)
        /\ Len(resp[r].items) = 2
        /\ Len(coll) > 2

\* C7: every store failure during GET /api/products is answered with HTTP 500
\* and a JSON detail that carries the error text.
C7_StoreFailureIs500Json ==
    \A r \in Req :
        (IsList(r) /\ pc[r] = "done" /\ failed[r] # "")
        => /\ resp[r].status = 500
           /\ resp[r].ctype = "json"
           /\ resp[r].detail = failed[r]

-----------------------------------------------------------------------------
(* Properties of GET /test *)

\* C8: GET /test answers 200 in every store state: "Available but not
\* initialized" without a connection, the first 10 collection names at most
\* when the listing works, the error text as a field when it raises.
C8_TestAlways200 ==
    report.status # 0
    => /\ report.status = 200
       /\ db = "none" => /\ report.database = "Available but not initialized"
                         /\ report.collections = <<>>
       /\ (db = "connected" /\ listErr = None)
            => /\ report.database = "Connected & Working"
               /\ Len(report.collections) <= 10
               /\ Len(report.collections) = Min(10, Len(names))
               /\ \A i \in 1..Len(report.collections) : report.collections[i] = names[i]
       /\ (db = "connected" /\ listErr # None)
            => /\ report.database = "Connected but Error: "
               /\ report.collections = <<>>
               /\ Len(report.error) = Min(50, Len(listErr[1]))
               /\ \A i \in 1..Len(report.error) : report.error[i] = listErr[1][i]

C8_Witness ==
    /\ report.status = 200
    /\ db = "connected" /\ listErr = None
    /\ Len(names) > 10
    /\ Len(report.collections) = 10

-----------------------------------------------------------------------------
(* Properties of serialize_product *)

Has(d, k) == k \in DOMAIN d

NotNull(d, k) == k \in DOMAIN d /\ d[k] # None

\* the defaulting table, with the colors and in_stock expected for null
Table(d, out, inStockForNull) ==
    /\ out.id = (IF NotNull(d, "_id") THEN "oid" \o ToString(d["_id"][1]) ELSE "None")
    /\ out.title = (IF NotNull(d, "title") THEN d["title"][1] ELSE "")
    /\ out.price = (IF NotNull(d, "price") THEN d["price"][1] ELSE 0)
    /\ out.category = (IF NotNull(d, "category") THEN d["category"][1] ELSE "streetwear")
    /\ out.in_stock = (IF NotNull(d, "in_stock") THEN d["in_stock"][1]
                       ELSE IF Has(d, "in_stock") THEN inStockForNull ELSE TRUE)
    /\ out.colors # None
    /\ out.colors = (IF NotNull(d, "colors") THEN d["colors"] ELSE Some(<<>>))
    /\ out.description = (IF Has(d, "description") THEN d["description"] ELSE None)
    /\ out.image = (IF Has(d, "image") THEN d["image"] ELSE None)

\* C9 as stated: serialize_product never fails, with every field absent,
\* null or present, and follows the defaulting table.
C9_Original ==
    serOut # Pending
    => /\ serOut.ok
       /\ Table(rawDoc, serOut.value, TRUE)

\* the documents serialize_product accepts: title and category not null,
\* price not null and not negative
Serializable(d) ==
    /\ Has(d, "title") => d["title"] # None
    /\ Has(d, "category") => d["category"] # None
    /\ Has(d, "price") => d["price"] # None /\ d["price"][1] >= 0

\* C9: serialize_product returns a Product exactly for the documents whose
\* title and category are not null and whose price is neither null nor
\* negative, and then follows the defaulting table, null in_stock giving
\* false; for the other documents it raises.
C9_SerializerTable ==
    serOut # Pending
    => /\ serOut.ok <=> Serializable(rawDoc)
       /\ serOut.ok => Table(rawDoc, serOut.value, FALSE)

C9_Witness ==
    /\ serOut # Pending
    /\ serOut.ok
    /\ ~Has(rawDoc, "title") /\ ~Has(rawDoc, "price")
    /\ Has(rawDoc, "colors") /\ rawDoc["colors"] = None
    /\ serOut.value.title = "" /\ serOut.value.price = 0
    /\ serOut.value.colors = Some(<<>>)

====
